---- MODULE Spec2Model ----
(***************************************************************************)
(* HashGen (src/hashgen.py): hashtags from the most frequent words of a    *)
(* collection of documents.  The model follows main(): build the stopword  *)
(* set, list the input files, parse them sentence by sentence into the     *)
(* dictionaries data and counts, select tags by metric and limit, write    *)
(* the selected tags.                                                      *)
(*                                                                         *)
(* A string is a sequence of one-character strings, so that the regular    *)
(* expressions of the source can be computed character by character.       *)
(* Sentence segmentation, tokenisation and part-of-speech tagging belong   *)
(* to NLTK: their results are drawn from small sets.                       *)
(***************************************************************************)
EXTENDS Integers, Sequences, FiniteSets, TLC

\* ------------------------------------------------------------------ bounds

\* Tokens handed to get_tags over the whole run.
MaxTokens == 3

\* ------------------------------------------------------------ characters

Letters == {"a", "b", "c", "d", "e", "j", "n", "o", "p", "r", "s", "t", "u", "v"}
Digits == {"6"}
SpaceChars == {" ", "\n"}

\* The capital letters and their lower-case forms.
UpperToLower ==
    [c \in {"B", "C", "D", "J", "N", "P", "R", "T", "U", "V"} |->
        CASE c = "B" -> "b" [] c = "C" -> "c" [] c = "D" -> "d" [] c = "J" -> "j"
          [] c = "N" -> "n" [] c = "P" -> "p" [] c = "R" -> "r" [] c = "T" -> "t"
          [] c = "U" -> "u" [] c = "V" -> "v"]

Capitals == DOMAIN UpperToLower

\* str.lower() on one character.
LowerChar(c) == IF c \in Capitals THEN UpperToLower[c] ELSE c

\* \w of a Python 3 str pattern: letters, digits and the underscore.
IsWordChar(c) == c \in Letters \cup Capitals \cup Digits \cup {"_"}

\* \s of a Python 3 str pattern.
IsSpaceChar(c) == c \in SpaceChars

\* \d of a Python 3 str pattern.
IsDigitChar(c) == c \in Digits

ToSet(seq) == {seq[i] : i \in DOMAIN seq}

\* str.lower()
Lower(str) == [i \in DOMAIN str |-> LowerChar(str[i])]

\* --------------------------------------------------------- module constants

POS_TO_LEMMATISE == <<"n", "v">>

\* The dictionary {'us': 'PRP'}.
BAD_HOMOGRAPHS == [t \in {<<"u", "s">>} |-> <<"P", "R", "P">>]

\* ------------------------------------------------ the functions on tokens

\* re.sub(r'[^\w\s]', '', token).lower()
normalise_token(token) ==
    Lower(SelectSeq(token, LAMBDA c : IsWordChar(c) \/ IsSpaceChar(c)))

\* nltk.WordNetLemmatizer().lemmatize(token, pos_start): WordNet's detachment
\* rule for a final "s" ('us' -> 'u', 'as' -> 'a'); anything else is returned
\* as it is.
WordNetLemmatize(token, pos_start) ==
    IF Len(token) > 1 /\ token[Len(token)] = "s"
    THEN SubSeq(token, 1, Len(token) - 1)
    ELSE token

\* pos is never empty here: nltk.pos_tag gives every token a tag.
lemmatise_tag(token, pos) ==
    LET pos_start == LowerChar(pos[1])
    IN  IF pos_start \in ToSet(POS_TO_LEMMATISE)
        THEN WordNetLemmatize(token, pos_start)
        ELSE token

bad_homograph(token, pos) ==
    token \in DOMAIN BAD_HOMOGRAPHS /\ BAD_HOMOGRAPHS[token] = pos

\* only_numeric taking one digit for enough.
only_numeric_any(tag) == \E i \in DOMAIN tag : IsDigitChar(tag[i])

\* len(re.sub(r'\d', '', tag)) == 0
only_numeric(tag) ==
    Len(SelectSeq(tag, LAMBDA c : ~IsDigitChar(c))) = 0

\* tag in stops
in_stop_list(tag, stopset) == tag \in stopset

good_tag(token, pos, stopset) ==
    ~bad_homograph(token, pos) /\ ~only_numeric(token) /\ ~in_stop_list(token, stopset)

\* One iteration of the loop of get_tags over nltk.pos_tag(tokens): item is
\* a <<token, pos>> pair, tags the list built so far.
get_tags_step(tags_so_far, item, stopset) ==
    LET token == normalise_token(item[1])
        pos == item[2]
    IN  IF Len(token) > 0
        THEN LET tag == lemmatise_tag(token, pos)
             IN  IF good_tag(tag, pos, stopset) THEN Append(tags_so_far, tag)
                 ELSE tags_so_far
        ELSE tags_so_far

\* ------------------------------------------------------- custom stopwords

RECURSIVE lstrip(_)
\* Leading whitespace removed.
lstrip(line) ==
    IF line # <<>> /\ IsSpaceChar(Head(line)) THEN lstrip(Tail(line)) ELSE line

RECURSIVE rstrip(_)
\* Trailing whitespace removed.
rstrip(line) ==
    IF line # <<>> /\ IsSpaceChar(line[Len(line)])
    THEN rstrip(SubSeq(line, 1, Len(line) - 1))
    ELSE line

\* line.strip()
strip(line) == rstrip(lstrip(line))

RECURSIVE rstrip_newline(_)
\* line.rstrip('\n')
rstrip_newline(line) ==
    IF line # <<>> /\ line[Len(line)] = "\n"
    THEN rstrip_newline(SubSeq(line, 1, Len(line) - 1))
    ELSE line

\* The set comprehension of stops_from_file over the lines of the file.
stops_from_file(lines) ==
    {rstrip_newline(lines[i]) : i \in
        {j \in DOMAIN lines :
            /\ ~(strip(lines[j]) # <<>> /\ Head(strip(lines[j])) = "#")
            /\ Len(strip(lines[j])) > 0}}

\* nltk.corpus.stopwords.words('english'), the words of it the tokens of the
\* model can spell.
BuiltinStops == {<<"a">>, <<"a", "s">>, <<"t", "o">>}

\* ------------------------------------------------------------ the inputs

\* args.e, the default.
Extension == "txt"

\* What os.listdir(input_dir) can return: each entry has its name, the part
\* of the name after the last dot, and whether it is a regular file.
DirListings ==
    { <<>>,
      << [name |-> "d2.txt", ext |-> "txt", isfile |-> TRUE],
         [name |-> "notes.md", ext |-> "md", isfile |-> TRUE],
         [name |-> "sub.txt", ext |-> "txt", isfile |-> FALSE],
         [name |-> "d1.txt", ext |-> "txt", isfile |-> TRUE] >> }

\* The lines of the custom stopword file, when there is one.
StopFiles ==
    { << <<"#", "b", "\n">>, <<"\n">>, <<"b", "\n">>, <<" ", "u", "\n">> >> }

\* Sentences nltk.sent_tokenize can return.
Sentences == {"s1", "s2"}

\* Tokens nltk.word_tokenize can return (no white space inside a token).
Tokens ==
    { <<"U", "s">>, <<"u", "s">>, <<"6", "6">>, <<"b", "_">>, <<".">>, <<"a">>,
      <<"B">> }

\* Part-of-speech tags nltk.pos_tag can give.
PosTags == { <<"P", "R", "P">>, <<"N", "N", "P">>, <<"J", "J">>, <<"C", "D">> }

\* args.l and args.m.
Limits == {0, 1, 2, 50, 100}
Metrics == {"abs", "pct", "min"}

\* ----------------------------------------------------------------- state

VARIABLES
    pc,            \* where main is
    console,       \* what was printed, in order
    exit_status,   \* "none" while running, then the process's exit status
    error,         \* the uncaught exception, "none" if there is none
    dir_valid,     \* os.path.isdir(args.i)
    dir_entries,   \* os.listdir(args.i)
    stops_arg,     \* args.s: "none", "missing" (no such file) or "file"
    stops_lines,   \* the lines of the file args.s names
    stops,         \* parse_texts: stops
    files,         \* the list get_files returned
    file_idx,      \* how many of files the loop of parse_texts has taken
    doc,           \* parse_texts: doc
    sent,          \* parse_texts: sent
    tags,          \* get_tags: tags
    pending,       \* the tags of the sentence still to be passed to update_data
    n_tokens,      \* tokens seen so far
    n_items,       \* tokens of the current sentence seen so far
    data,          \* parse_texts: data
    counts,        \* parse_texts: counts
    calls,         \* every call of update_data so far, as <<doc, sent, tag>>
    df,            \* the data frame make_df returned: a sequence of rows
    limit,         \* args.l
    metric,        \* args.m
    selected_tags, \* main: selected_tags
    out_written,   \* whether args.o was written
    out_json,      \* what was written to it
    f_token, f_pos, f_stops, f_result, f_called  \* one call of good_tag

runvars == <<pc, console, exit_status, error>>
argvars == <<dir_valid, dir_entries, stops_arg, stops_lines>>
parsevars == <<stops, files, file_idx, doc, sent, tags, pending, n_tokens, n_items>>
indexvars == <<data, counts, calls>>
selvars == <<df, limit, metric, selected_tags>>
outvars == <<out_written, out_json>>
filtervars == <<f_token, f_pos, f_stops, f_result, f_called>>
vars == <<runvars, argvars, parsevars, indexvars, selvars, outvars, filtervars>>

\* The empty dictionary.
EmptyDict == [t \in {} |-> 0]

MsgStarted == "HashGen started..."
MsgDone == "HashGen done"
MsgBadStopFile == "is not a valid text file. No hashtags generated."
MsgBadDir == "is not a valid directory. No hashtags generated."
MsgNoTags == "No hashtags could be generated with the supplied data and selection criteria."
MsgTraceback == "Traceback (most recent call last)"

PipelineIdle ==
    /\ stops = {} /\ files = <<>> /\ file_idx = 0 /\ doc = "" /\ sent = ""
    /\ tags = <<>> /\ pending = <<>> /\ n_tokens = 0 /\ n_items = 0
    /\ data = EmptyDict /\ counts = EmptyDict /\ calls = <<>>
    /\ df = <<>> /\ limit = 0 /\ metric = "abs" /\ selected_tags = <<>>
    /\ out_written = FALSE /\ out_json = EmptyDict
    /\ console = <<>> /\ exit_status = "none" /\ error = "none"

FilterIdle ==
    /\ f_token = <<>> /\ f_pos = <<>> /\ f_stops = {} /\ f_result = FALSE
    /\ f_called = FALSE

\* The process before main runs: the command line and the file system are
\* given, nothing is computed yet.
Init ==
    /\ pc = "main"
    /\ PipelineIdle
    /\ FilterIdle
    /\ \/ dir_valid = FALSE /\ dir_entries = <<>>
       \/ dir_valid = TRUE /\ dir_entries \in DirListings
    /\ \/ stops_arg \in {"none", "missing"} /\ stops_lines = <<>>
       \/ stops_arg = "file" /\ stops_lines \in StopFiles

\* An uncaught exception: the interpreter prints the traceback and the
\* process ends with status 1.
Raise(exc) ==
    /\ pc' = "crashed"
    /\ error' = exc
    /\ console' = Append(console, MsgTraceback)
    /\ exit_status' = "1"

\* main, up to the call of parse_texts.
Start ==
    /\ pc = "main"
    /\ pc' = "build_stopword_list"
    /\ console' = Append(console, MsgStarted)
    /\ UNCHANGED <<exit_status, error, argvars, parsevars, indexvars, selvars,
                   outvars, filtervars>>

\* build_stopword_list and stops_from_file.  With no such file the print of
\* stops_from_file names the variable path, which does not exist: the
\* NameError is raised before anything is printed and before sys.exit(-1).
BuildStopwordList ==
    /\ pc = "build_stopword_list"
    /\ \/ /\ stops_arg = "none"
          /\ stops' = BuiltinStops
          /\ pc' = "get_files"
          /\ UNCHANGED <<console, exit_status, error>>
       \/ /\ stops_arg = "file"
          /\ stops' = BuiltinStops \cup stops_from_file(stops_lines)
          /\ pc' = "get_files"
          /\ UNCHANGED <<console, exit_status, error>>
       \/ /\ stops_arg = "missing"
          /\ Raise("NameError")
          /\ UNCHANGED stops
    /\ UNCHANGED <<argvars, files, file_idx, doc, sent, tags, pending, n_tokens,
                   n_items, indexvars, selvars, outvars, filtervars>>

\* The list comprehension of get_files.
ListFiles(entries, extension) ==
    LET keep == SelectSeq(entries, LAMBDA e : e.isfile /\ e.ext = extension)
    IN  [i \in DOMAIN keep |-> keep[i].name]

\* get_files.  With no such directory the print names the variable path,
\* which does not exist: NameError, as in stops_from_file.
GetFiles ==
    /\ pc = "get_files"
    /\ \/ /\ dir_valid
          /\ files' = ListFiles(dir_entries, Extension)
          /\ pc' = "files"
          /\ UNCHANGED <<console, exit_status, error>>
       \/ /\ ~dir_valid
          /\ Raise("NameError")
          /\ UNCHANGED files
    /\ UNCHANGED <<argvars, stops, file_idx, doc, sent, tags, pending, n_tokens,
                   n_items, indexvars, selvars, outvars, filtervars>>

\* ------------------------------------------------------------ parse_texts

\* The loop over the files: the next file is opened.
NextFile ==
    /\ pc = "files"
    /\ file_idx < Len(files)
    /\ file_idx' = file_idx + 1
    /\ doc' = files[file_idx + 1]
    /\ pc' = "sents"
    /\ UNCHANGED <<console, exit_status, error, argvars, stops, files, sent, tags,
                   pending, n_tokens, n_items, indexvars, selvars, outvars, filtervars>>

\* The loops over the lines of a file and the sentences of a line: the next
\* sentence, and the call of get_tags on its tokens.  A sentence has at least
\* one token.
NextSentence ==
    /\ pc = "sents"
    /\ n_tokens < MaxTokens
    /\ \E s \in Sentences : sent' = s
    /\ tags' = <<>>
    /\ pc' = "get_tags"
    /\ UNCHANGED <<console, exit_status, error, argvars, stops, files, file_idx, doc,
                   pending, n_tokens, n_items, indexvars, selvars, outvars, filtervars>>

\* The file has no more lines.
EndOfFile ==
    /\ pc = "sents"
    /\ pc' = "files"
    /\ UNCHANGED <<console, exit_status, error, argvars, parsevars, indexvars,
                   selvars, outvars, filtervars>>

\* get_tags: one iteration over nltk.pos_tag(tokens).
GetTagsStep ==
    /\ pc = "get_tags"
    /\ n_tokens < MaxTokens
    /\ \E token \in Tokens, pos \in PosTags :
          tags' = get_tags_step(tags, <<token, pos>>, stops)
    /\ n_tokens' = n_tokens + 1
    /\ n_items' = n_items + 1
    /\ UNCHANGED <<runvars, argvars, stops, files, file_idx, doc, sent, pending,
                   indexvars, selvars, outvars, filtervars>>

\* get_tags returns its list; the loop over it starts.
GetTagsReturn ==
    /\ pc = "get_tags"
    /\ n_items > 0
    /\ pending' = tags
    /\ tags' = <<>>
    /\ n_items' = 0
    /\ pc' = IF tags = <<>> THEN "sents" ELSE "update"
    /\ UNCHANGED <<console, exit_status, error, argvars, stops, files, file_idx, doc,
                   sent, n_tokens, indexvars, selvars, outvars, filtervars>>

\* dict[key] = value
Put(dict, key, value) ==
    [k \in DOMAIN dict \cup {key} |-> IF k = key THEN value ELSE dict[k]]

\* AppendIfAbsent without its test: every value is appended.
AppendAlways(list, x) == Append(list, x)

\* AppendIfAbsent putting a new value in front.
PrependIfAbsent(list, x) == IF x \in ToSet(list) THEN list ELSE <<x>> \o list

\* list.append(x) if x not in list else None
AppendIfAbsent(list, x) == IF x \in ToSet(list) THEN list ELSE Append(list, x)

\* update_data, on data.
update_data(d, s, tag, dict) ==
    IF tag \in DOMAIN dict
    THEN Put(dict, tag, [docs |-> AppendIfAbsent(dict[tag].docs, d),
                         sents |-> AppendIfAbsent(dict[tag].sents, s)])
    ELSE Put(dict, tag, [docs |-> <<d>>, sents |-> <<s>>])

\* update_data, on counts: the test is the same one, tag in data.
update_counts(tag, dict, cnt) ==
    IF tag \in DOMAIN dict
    THEN Put(cnt, tag, cnt[tag] + 1)
    ELSE Put(cnt, tag, 1)

\* The body of the loop over the tags of a sentence: update_data.
UpdateData ==
    /\ pc = "update"
    /\ pending # <<>>
    /\ data' = update_data(doc, sent, Head(pending), data)
    /\ counts' = update_counts(Head(pending), data, counts)
    /\ calls' = Append(calls, <<doc, sent, Head(pending)>>)
    /\ pending' = Tail(pending)
    /\ pc' = IF Tail(pending) = <<>> THEN "sents" ELSE "update"
    /\ UNCHANGED <<console, exit_status, error, argvars, stops, files, file_idx, doc,
                   sent, tags, n_tokens, n_items, selvars, outvars, filtervars>>

\* ------------------------------------------------- make_df and select_tags

\* The orders in which the elements of a finite set can stand.
Perms(S) ==
    {p \in [1..Cardinality(S) -> S] : \A i, j \in 1..Cardinality(S) : p[i] = p[j] => i = j}

\* make_df: one row per item of counts, sorted by count, highest first.  The
\* sort is sort_values with its default kind (quicksort), which promises no
\* order among rows of equal count: every such order is a possible frame.
make_df(cnt) ==
    {[i \in DOMAIN p |-> [tag |-> p[i], count |-> cnt[p[i]]]] : p \in
        {q \in Perms(DOMAIN cnt) :
            \A i, j \in DOMAIN q : i < j => cnt[q[i]] >= cnt[q[j]]}}

\* frame['tag'].tolist()
TagColumn(frame) == [i \in DOMAIN frame |-> frame[i].tag]

\* get_n
get_n(frame, lim, m) ==
    LET total == Len(frame)
    IN  IF m = "pct"
        THEN IF lim >= 100 THEN total ELSE (lim * total) \div 100
        ELSE lim

\* The frame without its i-th row.
DropRow(frame, i) == SubSeq(frame, 1, i - 1) \o SubSeq(frame, i + 1, Len(frame))

RECURSIVE FirstLargest(_, _)
\* The n rows of highest count, highest first; among rows of equal count the
\* one that stands first in the frame is taken first (keep='first').
FirstLargest(frame, n) ==
    IF n <= 0 \/ frame = <<>> THEN <<>>
    ELSE LET top == CHOOSE i \in DOMAIN frame :
                        /\ \A j \in DOMAIN frame : frame[j].count <= frame[i].count
                        /\ \A j \in DOMAIN frame : frame[j].count = frame[i].count => i <= j
         IN  <<frame[top]>> \o FirstLargest(DropRow(frame, top), n - 1)

\* nlargest taking the rows from the other end of the frame.
nlargest_from_end(frame, n) ==
    IF frame = <<>>
    THEN [error |-> "TypeError", rows |-> <<>>]
    ELSE [error |-> "none",
          rows |-> IF n >= Len(frame) THEN frame
                   ELSE SubSeq(frame, Len(frame) - n + 1, Len(frame))]

\* DataFrame.nlargest(n, 'count').  pandas first checks the dtype of the
\* column and raises TypeError unless it is numeric; the columns of the frame
\* built from no rows at all have dtype object.
nlargest(frame, n) ==
    IF frame = <<>>
    THEN [error |-> "TypeError", rows |-> <<>>]
    ELSE [error |-> "none", rows |-> FirstLargest(frame, n)]

\* get_top_tags
get_top_tags(frame, lim, m) ==
    LET r == nlargest(frame, get_n(frame, lim, m))
    IN  [error |-> r.error, tags |-> TagColumn(r.rows)]

\* get_tags_with_min with > for >=.
get_tags_with_min_strict(frame, lim) ==
    TagColumn(SelectSeq(frame, LAMBDA row : row.count > lim))

\* get_tags_with_min
get_tags_with_min(frame, lim) ==
    TagColumn(SelectSeq(frame, LAMBDA row : row.count >= lim))

\* select_tags
select_tags(frame, lim, m) ==
    IF m = "min"
    THEN [error |-> "none", tags |-> get_tags_with_min(frame, lim)]
    ELSE get_top_tags(frame, lim, m)

\* parse_texts returns after the last file; main calls make_df(counts).
MakeDf ==
    /\ pc = "files"
    /\ file_idx = Len(files)
    /\ df' \in make_df(counts)
    /\ pc' = "select_tags"
    /\ UNCHANGED <<console, exit_status, error, argvars, parsevars, indexvars,
                   limit, metric, selected_tags, outvars, filtervars>>

\* main calls select_tags(df, args.l, args.m): the limit and the metric of
\* the command line are read here for the first time.
SelectTags ==
    /\ pc = "select_tags"
    /\ \E l \in Limits, m \in Metrics :
          /\ limit' = l
          /\ metric' = m
          /\ LET r == select_tags(df, l, m)
             IN  IF r.error = "none"
                 THEN /\ selected_tags' = r.tags
                      /\ pc' = "write_tags"
                      /\ UNCHANGED <<console, exit_status, error>>
                 ELSE /\ Raise(r.error)
                      /\ UNCHANGED selected_tags
    /\ UNCHANGED <<argvars, parsevars, indexvars, df, outvars, filtervars>>

\* filter_data
filter_data(selected, dict) == [tag \in ToSet(selected) |-> dict[tag]]

\* write_tags, and the end of main.
WriteTags ==
    /\ pc = "write_tags"
    /\ IF Len(selected_tags) > 0
       THEN /\ out_written' = TRUE
            /\ out_json' = filter_data(selected_tags, data)
            /\ console' = Append(console, MsgDone)
       ELSE /\ console' = Append(Append(console, MsgNoTags), MsgDone)
            /\ UNCHANGED outvars
    /\ pc' = "done"
    /\ exit_status' = "0"
    /\ UNCHANGED <<error, argvars, parsevars, indexvars, selvars, filtervars>>

Next ==
    \/ Start
    \/ BuildStopwordList
    \/ GetFiles
    \/ NextFile
    \/ NextSentence
    \/ EndOfFile
    \/ GetTagsStep
    \/ GetTagsReturn
    \/ UpdateData
    \/ MakeDf
    \/ SelectTags
    \/ WriteTags

Spec == Init /\ [][Next]_vars

\* --------------------------------------------------- good_tag on its own

\* Tags, part-of-speech tags and stopword collections good_tag is called
\* with: every string of at most two of the characters u, s, 6 and _, the
\* tags of src/tests.py, and the part-of-speech tags of the tests.
FilterChars == {"u", "s", "6", "_"}
FilterTokens ==
    {<<>>} \cup {<<c>> : c \in FilterChars}
           \cup {<<c, d>> : c \in FilterChars, d \in FilterChars}
           \cup { <<"r", "o", "u", "t", "e">>, <<"r", "o", "u", "t", "e", "6", "6">> }
FilterPos == { <<>>, <<"P", "R", "P">>, <<"N", "N", "P">>, <<"p", "r", "p">> }
FilterStops ==
    { {}, {<<"r", "o", "u", "t", "e">>}, {<<"u", "s">>}, {<<"u">>, <<"6", "6">>},
      BuiltinStops }

InitFilter ==
    /\ pc = "good_tag"
    /\ PipelineIdle
    /\ dir_valid = FALSE /\ dir_entries = <<>>
    /\ stops_arg = "none" /\ stops_lines = <<>>
    /\ f_token \in FilterTokens
    /\ f_pos \in FilterPos
    /\ f_stops \in FilterStops
    /\ f_result = FALSE
    /\ f_called = FALSE

\* One call good_tag(token, pos, stops), as the tests of src/tests.py make it.
CallGoodTag ==
    /\ pc = "good_tag"
    /\ ~f_called
    /\ f_result' = good_tag(f_token, f_pos, f_stops)
    /\ f_called' = TRUE
    /\ UNCHANGED <<runvars, argvars, parsevars, indexvars, selvars, outvars,
                   f_token, f_pos, f_stops>>

NextFilter == CallGoodTag

SpecFilter == InitFilter /\ [][NextFilter]_vars

\* ================================================================ claims

\* The calls of update_data made with tag, in order.
CallsWith(tag) == SelectSeq(calls, LAMBDA c : c[3] = tag)

NoDuplicates(seq) == \A i, j \in DOMAIN seq : seq[i] = seq[j] => i = j

IsPrefix(a, b) == Len(a) <= Len(b) /\ SubSeq(b, 1, Len(a)) = a

RECURSIVE FirstSeen(_)
\* The values of a sequence in the order of their first appearance.
FirstSeen(seq) ==
    IF seq = <<>> THEN <<>>
    ELSE LET front == FirstSeen(SubSeq(seq, 1, Len(seq) - 1))
         IN  IF seq[Len(seq)] \in ToSet(front) THEN front
             ELSE Append(front, seq[Len(seq)])

\* C1: after any sequence of update_data calls from the empty index, the
\* tags of the index are the tags passed, and for each of them count is the
\* number of calls made with it, and documents and sentences hold, without
\* duplicates, exactly the documents and the sentences passed with it.
C1_CountsAndSets ==
    /\ DOMAIN data = {calls[i][3] : i \in DOMAIN calls}
    /\ DOMAIN counts = DOMAIN data
    /\ \A tag \in DOMAIN data :
          /\ counts[tag] = Len(CallsWith(tag))
          /\ NoDuplicates(data[tag].docs)
          /\ NoDuplicates(data[tag].sents)
          /\ ToSet(data[tag].docs) = {c[1] : c \in ToSet(CallsWith(tag))}
          /\ ToSet(data[tag].sents) = {c[2] : c \in ToSet(CallsWith(tag))}

\* C1 witness: two calls with the same (document, sentence, tag) were made,
\* the count is 2 and there is one document and one sentence.
C1_Witness ==
    \E tag \in DOMAIN data :
        /\ Len(CallsWith(tag)) = 2
        /\ CallsWith(tag)[1] = CallsWith(tag)[2]
        /\ counts[tag] = 2
        /\ Len(data[tag].docs) = 1
        /\ Len(data[tag].sents) = 1

\* The position of a file name in the list of files.
FileIndex(name) == CHOOSE i \in DOMAIN files : files[i] = name

\* C2: the index only grows.  Every step keeps every tag, lowers no count and
\* extends the documents and the sentences of a tag at their end; so in every
\* state they stand in the order in which update_data first got them, and
\* the documents in the order of the files of the run.
C2_AppendOnly ==
    /\ [][\A tag \in DOMAIN data :
              /\ tag \in DOMAIN data'
              /\ tag \in DOMAIN counts'
              /\ counts'[tag] >= counts[tag]
              /\ IsPrefix(data[tag].docs, data'[tag].docs)
              /\ IsPrefix(data[tag].sents, data'[tag].sents)]_vars
    /\ [](\A tag \in DOMAIN data :
              /\ data[tag].docs = FirstSeen([i \in DOMAIN CallsWith(tag) |-> CallsWith(tag)[i][1]])
              /\ data[tag].sents = FirstSeen([i \in DOMAIN CallsWith(tag) |-> CallsWith(tag)[i][2]])
              /\ \A i, j \in DOMAIN data[tag].docs :
                    i < j => FileIndex(data[tag].docs[i]) < FileIndex(data[tag].docs[j]))

\* C2 witness: a tag seen in two documents and in two sentences.
C2_Witness ==
    \E tag \in DOMAIN data : Len(data[tag].docs) = 2 /\ Len(data[tag].sents) = 2

\* C3: good_tag returns true exactly when the pair is not ("us", PRP), the
\* tag is not made of digits only (the empty tag is), and the tag is no
\* member of the stopword collection; with the cases of the tests.
C3_GoodTagIff ==
    f_called =>
        /\ f_result <=>
              ~ \/ (f_token = <<"u", "s">> /\ f_pos = <<"P", "R", "P">>)
                \/ (\A i \in DOMAIN f_token : f_token[i] \in Digits)
                \/ (\E w \in f_stops : w = f_token)
        /\ (f_token = <<"u", "s">> /\ f_pos = <<"P", "R", "P">>) => ~f_result
        /\ (f_token = <<"u", "s">> /\ f_pos = <<"N", "N", "P">> /\ f_stops = {}) => f_result
        /\ f_token = <<"6", "6">> => ~f_result
        /\ (f_token = <<"r", "o", "u", "t", "e", "6", "6">> /\ f_stops = {}) => f_result
        /\ (f_token = <<"r", "o", "u", "t", "e">> /\ f_stops = {}) => f_result
        /\ (f_token = <<"r", "o", "u", "t", "e">> /\ f_stops = {<<"r", "o", "u", "t", "e">>})
              => ~f_result

\* C3 witness: good_tag was called on "route66" with no stopwords and
\* accepted it.
C3_Witness ==
    /\ f_called
    /\ f_token = <<"r", "o", "u", "t", "e", "6", "6">>
    /\ f_stops = {}
    /\ f_result

\* select_tags has returned.
Selected == pc \in {"write_tags", "done"}

\* C6: with the metric min the selection is exactly the tags whose count
\* is >= the limit, each once, whatever their number; limits 0 and 1 select
\* every tag of the index.
C6_Minimum ==
    (Selected /\ metric = "min") =>
        /\ ToSet(selected_tags) = {tag \in DOMAIN counts : counts[tag] >= limit}
        /\ NoDuplicates(selected_tags)
        /\ limit \in {0, 1} => ToSet(selected_tags) = DOMAIN data

\* C6 witness: the limit 2 selected some tags and left some out.
C6_Witness ==
    /\ Selected
    /\ metric = "min"
    /\ limit = 2
    /\ selected_tags # <<>>
    /\ ToSet(selected_tags) # DOMAIN counts

\* select_tags was called: it has returned or it has raised.
SelectCalled == Selected \/ (pc = "crashed" /\ error = "TypeError")

\* The number of distinct tags.
Total == Cardinality(DOMAIN counts)

Min(a, b) == IF a <= b THEN a ELSE b

\* The N of the metric: the limit itself, or the share of the tags.
EffectiveN ==
    IF metric = "pct"
    THEN IF limit >= 100 THEN Total ELSE (limit * Total) \div 100
    ELSE limit

\* C4 as claimed: with the metric abs, for every counts mapping, select
\* returns min(limit, number of tags) distinct tags, none with a count below
\* that of a tag left out; none for limit 0, all for a limit >= their number.
C4_Absolute ==
    (SelectCalled /\ metric = "abs") =>
        /\ Selected
        /\ Len(selected_tags) = Min(limit, Total)
        /\ NoDuplicates(selected_tags)
        /\ ToSet(selected_tags) \subseteq DOMAIN counts
        /\ \A t \in ToSet(selected_tags), u \in DOMAIN counts \ ToSet(selected_tags) :
              counts[t] >= counts[u]
        /\ limit = 0 => selected_tags = <<>>
        /\ limit >= Total => ToSet(selected_tags) = DOMAIN counts

\* C4, where the frame has a row: the statement of C4_Absolute for the
\* counts mappings that are not empty.
C4_AbsoluteOnRows ==
    (SelectCalled /\ metric = "abs" /\ Total > 0) =>
        /\ Selected
        /\ Len(selected_tags) = Min(limit, Total)
        /\ NoDuplicates(selected_tags)
        /\ ToSet(selected_tags) \subseteq DOMAIN counts
        /\ \A t \in ToSet(selected_tags), u \in DOMAIN counts \ ToSet(selected_tags) :
              counts[t] >= counts[u]

\* C5 as claimed: with the metric pct, for every counts mapping, select
\* returns what the metric abs returns for N = total when limit >= 100 and
\* N = floor(limit * total / 100) otherwise: all tags for limit 100, none for
\* limit 0 and for limit * total < 100.
C5_Percentage ==
    (SelectCalled /\ metric = "pct") =>
        /\ Selected
        /\ selected_tags = select_tags(df, EffectiveN, "abs").tags
        /\ Len(selected_tags) = Min(EffectiveN, Total)
        /\ limit = 100 => ToSet(selected_tags) = DOMAIN counts
        /\ limit = 0 => selected_tags = <<>>
        /\ (limit < 100 /\ limit * Total < 100) => selected_tags = <<>>

\* C5, where the frame has a row.
C5_PercentageOnRows ==
    (SelectCalled /\ metric = "pct" /\ Total > 0) =>
        /\ Selected
        /\ selected_tags = select_tags(df, EffectiveN, "abs").tags
        /\ Len(selected_tags) = Min(EffectiveN, Total)
        /\ limit = 100 => ToSet(selected_tags) = DOMAIN counts
        /\ limit = 0 => selected_tags = <<>>
        /\ (limit < 100 /\ limit * Total < 100) => selected_tags = <<>>

\* The code point of a character a tag can hold.
CodePoint(c) ==
    CASE c = "6" -> 54 [] c = "_" -> 95 [] c = "a" -> 97 [] c = "b" -> 98
      [] c = "s" -> 115 [] c = "u" -> 117 [] OTHER -> 0

RECURSIVE TagLess(_, _)
\* a < b for two strings.
TagLess(a, b) ==
    IF b = <<>> THEN FALSE
    ELSE IF a = <<>> THEN TRUE
    ELSE IF CodePoint(Head(a)) # CodePoint(Head(b))
         THEN CodePoint(Head(a)) < CodePoint(Head(b))
         ELSE TagLess(Tail(a), Tail(b))

\* The tags that stand before tag in the order count descending, tag ascending.
Before(tag) ==
    {u \in DOMAIN counts :
        counts[u] > counts[tag] \/ (counts[u] = counts[tag] /\ TagLess(u, tag))}

\* The first n tags in the order count descending, tag ascending.
FirstByCountThenTag(n) == {tag \in DOMAIN counts : Cardinality(Before(tag)) < n}

\* A tag left out has the count of a tag taken in.
BoundaryTie ==
    \E t \in ToSet(selected_tags), u \in DOMAIN counts \ ToSet(selected_tags) :
        counts[t] = counts[u]

\* C7 as claimed: with the metrics abs and pct the tags selected are the
\* first N in the order count descending, tag ascending.
C7_TieByTag ==
    (Selected /\ metric \in {"abs", "pct"}) =>
        ToSet(selected_tags) = FirstByCountThenTag(EffectiveN)

\* C7 as amended: with the metrics abs and pct the tags selected are the
\* first N rows of the frame make_df returned; they are the first N in the
\* order count descending, tag ascending whenever no tag left out has the
\* count of a tag taken in.
C7_TieByFrame ==
    (Selected /\ metric \in {"abs", "pct"}) =>
        /\ selected_tags = TagColumn(SubSeq(df, 1, Min(EffectiveN, Len(df))))
        /\ ~BoundaryTie => ToSet(selected_tags) = FirstByCountThenTag(EffectiveN)

\* C7 witness: abs or pct took some tags and left some out, and the counts
\* alone decide which.
C7_Witness ==
    /\ Selected
    /\ metric \in {"abs", "pct"}
    /\ selected_tags # <<>>
    /\ ToSet(selected_tags) # DOMAIN counts
    /\ ~BoundaryTie

\* The process has ended.
Terminated == pc \in {"done", "crashed"}

\* C8 as claimed: a run whose selection is empty, the run over a corpus with
\* no surviving token included, under any metric and limit, writes no file,
\* prints the notice and ends with status 0; a file is written only when a tag
\* is selected.
C8_EmptySelection ==
    /\ (Terminated /\ SelectCalled /\ selected_tags = <<>>) =>
          /\ ~out_written
          /\ \E i \in DOMAIN console : console[i] = MsgNoTags
          /\ exit_status = "0"
          /\ error = "none"
    /\ out_written => selected_tags # <<>>

\* C9 as claimed: every key of the index is a non-empty string of lower-case
\* letters and digits.
C9_KeysAlphanumeric ==
    \A tag \in DOMAIN data :
        /\ tag # <<>>
        /\ \A i \in DOMAIN tag : tag[i] \in Letters \cup Digits

\* C10 as claimed: with an input directory that is no directory, or a custom
\* stopword path that is no file, the run prints its message, ends with a
\* status other than 0, aggregates no tag and writes no file.
C10_BadPaths ==
    (Terminated /\ (~dir_valid \/ stops_arg = "missing")) =>
        /\ exit_status \notin {"none", "0"}
        /\ \E i \in DOMAIN console :
              console[i] = (IF stops_arg = "missing" THEN MsgBadStopFile ELSE MsgBadDir)
        /\ DOMAIN data = {}
        /\ ~out_written

====
